---- MODULE Spec2Model ----
\* A model of AtomCAD's replayable molecule kernel (crates/scene/src/molecule.rs):
\* the materialized graph MoleculeRepr, the Molecule orchestrating a feature
\* timeline behind the history_step cursor, and the calls a client can make on
\* them.  A panic (assert!, panic!, expect) ends the run: the state it leaves
\* is kept and no further call is made.
EXTENDS Integers, Sequences, FiniteSets, TLC

VARIABLES repr, features, history_step, call, panicked, applied, ret, base, streak,
          direct, replayed

vars == <<repr, features, history_step, call, panicked, applied, ret, base, streak,
          direct, replayed>>

\* replayed lists, over the molecule's life, the identities replay has invoked
\* apply with.

\* ------------------------------------------------------------------ bounds

\* The longest feature timeline explored (root feature included).
MaxFeatures == 3
\* The most add_atom and create_bond calls made on molecule.repr directly
\* (outside replay) in one run.
MaxDirect == 1

\* ------------------------------------------------------------- value domains

Elements == {"C", "H"}
Origin == <<0, 0, 0>>
Offset == <<1, 0, 0>>

\* AtomSpecifier { feature_path: vec![FeatureCopyId { feature_id, copy_index }], child_index }
Specifier(fid, child) ==
    [feature_path |-> <<[feature_id |-> fid, copy_index |-> 0]>>, child_index |-> child]

\* The specifier from_first_atom gives the seed atom.
SeedSpec == Specifier(0, 0)

\* AtomKind::new(element): the render crate's wrapper of an element.
AtomKind(element) == [kind_of |-> element]

\* HashMap::insert: a present key is overwritten.
MapInsert(m, k, v) == (k :> v) @@ m

\* ------------------------------------------------------- features (timeline)

\* A feature is the sequence of MoleculeCommands calls its apply makes.  An atom
\* it adds gets the specifier (own identity, child); a bond endpoint is a
\* reference that names a feature identity or, with SelfId, the feature's own.
SelfId == -1
Ref(fid, child) == [feature_id |-> fid, child_index |-> child]
NoRef == Ref(SelfId, 0)
AddCmd(element, pos, child) ==
    [cmd |-> "add_atom", element |-> element, pos |-> pos, child |-> child,
     a1 |-> NoRef, a2 |-> NoRef, order |-> 0]
BondCmd(r1, r2, order) ==
    [cmd |-> "create_bond", element |-> "C", pos |-> Origin, child |-> 0,
     a1 |-> r1, a2 |-> r2, order |-> order]
Resolve(ref, feature_id) ==
    Specifier(IF ref.feature_id = SelfId THEN feature_id ELSE ref.feature_id,
              ref.child_index)

\* The root operation: creates the one seed atom.
RootFeature == <<AddCmd("C", Origin, 0)>>
\* Two atoms, the first bonded to the seed atom of the root feature.
PairFeature ==
    <<AddCmd("H", Offset, 0), AddCmd("H", Offset, 1),
      BondCmd(Ref(0, 0), Ref(SelfId, 0), 1)>>
\* Ill-authored: bonds its atom to one that was never created.
DanglingFeature == <<AddCmd("H", Offset, 0), BondCmd(Ref(SelfId, 0), Ref(SelfId, 1), 2)>>
\* Ill-authored: introduces the same specifier twice.
DuplicateFeature == <<AddCmd("H", Offset, 0), AddCmd("C", Origin, 0)>>

FeatureKinds == {PairFeature, DanglingFeature, DuplicateFeature}

\* FeatureList::default()
EmptyFeatureList == [counter |-> 0, order |-> <<>>, features |-> <<>>]

\* push_back that does not advance the identity counter.
push_back_same_id(fl, feature) ==
    [counter |-> fl.counter,
     order |-> Append(fl.order, fl.counter),
     features |-> MapInsert(fl.features, fl.counter, feature)]

\* FeatureList::push_back: the next sequential identity, registered and
\* appended to the replay order.
push_back(fl, feature) ==
    [counter |-> fl.counter + 1,
     order |-> Append(fl.order, fl.counter),
     features |-> MapInsert(fl.features, fl.counter, feature)]

\* FeatureList::len
len(fl) == Len(fl.order)

\* --------------------------------------------------- MoleculeRepr (graph)

\* What a call on the graph leaves: the graph, and whether the call panicked.
Done(r) == [repr |-> r, panic |-> FALSE]
Panic(r) == [repr |-> r, panic |-> TRUE]

\* StableGraph::add_node with no removals: the new node's index is the node
\* count; node i is graph.nodes[i + 1].
NodeCount(r) == Len(r.graph.nodes)
EdgeCount(r) == Len(r.graph.edges)

\* add_atom without the insertion into the specifier map.
add_atom_unmapped(r, element, pos, spec) ==
    LET node == [element |-> element, pos |-> pos, spec |-> spec]
    IN Done([r EXCEPT !.graph.nodes = Append(@, node),
                      !.gpu_synced = FALSE])

\* add_atom writing the atom over the node its specifier already maps to,
\* when there is one.
add_atom_replace(r, element, pos, spec) ==
    LET node == [element |-> element, pos |-> pos, spec |-> spec]
    IN IF spec \in DOMAIN r.atom_map
       THEN Done([r EXCEPT !.graph.nodes[r.atom_map[spec] + 1] = node,
                           !.gpu_synced = FALSE])
       ELSE Done([r EXCEPT !.graph.nodes = Append(@, node),
                           !.atom_map = MapInsert(@, spec, NodeCount(r)),
                           !.gpu_synced = FALSE])

\* add_atom leaving the synced flag as it is.
add_atom_keep_synced(r, element, pos, spec) ==
    LET index == NodeCount(r)
        node == [element |-> element, pos |-> pos, spec |-> spec]
    IN Done([r EXCEPT !.graph.nodes = Append(@, node),
                      !.atom_map = MapInsert(@, spec, index)])

\* add_atom that also rebuilds the render buffer from the new node set.
add_atom_upload(r, element, pos, spec) ==
    LET index == NodeCount(r)
        node == [element |-> element, pos |-> pos, spec |-> spec]
    IN Done([r EXCEPT !.graph.nodes = Append(@, node),
                      !.atom_map = MapInsert(@, spec, index),
                      !.gpu_atoms = Append(@, [kind |-> AtomKind(element), pos |-> pos]),
                      !.gpu_synced = FALSE])

\* MoleculeCommands::add_atom
add_atom(r, element, pos, spec) ==
    LET index == NodeCount(r)
        node == [element |-> element, pos |-> pos, spec |-> spec]
    IN Done([r EXCEPT !.graph.nodes = Append(@, node),
                      !.atom_map = MapInsert(@, spec, index),
                      !.gpu_synced = FALSE])

\* create_bond with the unresolved case ignored instead of panicking.
create_bond_lenient(r, a1, a2, order) ==
    IF a1 \in DOMAIN r.atom_map /\ a2 \in DOMAIN r.atom_map
    THEN Done([r EXCEPT !.graph.edges =
                   Append(@, [a |-> r.atom_map[a1], b |-> r.atom_map[a2],
                              order |-> order])])
    ELSE Done(r)

\* create_bond through StableGraph::update_edge: an edge that already joins
\* the two nodes gets the new order, and no edge is added.
create_bond_update(r, a1, a2, order) ==
    IF a1 \in DOMAIN r.atom_map /\ a2 \in DOMAIN r.atom_map
    THEN LET a == r.atom_map[a1]
             b == r.atom_map[a2]
             same == {i \in 1..EdgeCount(r) :
                         \/ r.graph.edges[i].a = a /\ r.graph.edges[i].b = b
                         \/ r.graph.edges[i].a = b /\ r.graph.edges[i].b = a}
         IN IF same = {}
            THEN Done([r EXCEPT !.graph.edges =
                           Append(@, [a |-> a, b |-> b, order |-> order])])
            ELSE Done([r EXCEPT !.graph.edges =
                           [i \in 1..EdgeCount(r) |->
                               IF i \in same THEN [@[i] EXCEPT !.order = order]
                               ELSE @[i]]])
    ELSE Panic(r)

\* MoleculeCommands::create_bond; StableGraph::add_edge always adds an edge
\* (parallel edges and self loops included).
create_bond(r, a1, a2, order) ==
    IF a1 \in DOMAIN r.atom_map /\ a2 \in DOMAIN r.atom_map
    THEN Done([r EXCEPT !.graph.edges =
                   Append(@, [a |-> r.atom_map[a1], b |-> r.atom_map[a2],
                              order |-> order])])
    ELSE Panic(r)

\* MoleculeCommands::find_atom: Option<&AtomNode>
None == [some |-> FALSE, node |-> [element |-> "C", pos |-> Origin, spec |-> SeedSpec]]
Some(node) == [some |-> TRUE, node |-> node]

\* find_atom returning the first node of the graph for any present key (the
\* index stored under the key ignored).
find_atom_first(r, spec) ==
    IF spec \in DOMAIN r.atom_map
    THEN Some(r.graph.nodes[1])
    ELSE None

find_atom(r, spec) ==
    IF spec \in DOMAIN r.atom_map
    THEN (IF r.atom_map[spec] < NodeCount(r)
          THEN Some(r.graph.nodes[r.atom_map[spec] + 1])
          ELSE None)
    ELSE None

RECURSIVE NodeWeights(_)
\* graph.node_weights().map(|node| AtomRepr { kind, pos }).collect()
NodeWeights(nodes) ==
    IF nodes = <<>> THEN <<>>
    ELSE <<[kind |-> AtomKind(Head(nodes).element), pos |-> Head(nodes).pos]>>
         \o NodeWeights(Tail(nodes))

\* reupload_atoms with the in-place upload that does not replace the buffer
\* (the call commented out at molecule.rs:51).
reupload_atoms_stale(r) == [r EXCEPT !.gpu_synced = TRUE]

\* MoleculeRepr::reupload_atoms
reupload_atoms(r) ==
    [r EXCEPT !.gpu_atoms = NodeWeights(r.graph.nodes), !.gpu_synced = TRUE]

\* ------------------------------------------------------------ Feature::apply

RECURSIVE ApplyCmds(_, _, _)
\* The commands of one apply, in order; a panicking command ends it.
ApplyCmds(cmds, feature_id, r) ==
    IF cmds = <<>> THEN Done(r)
    ELSE LET c == Head(cmds)
             res == IF c.cmd = "add_atom"
                    THEN add_atom(r, c.element, c.pos, Specifier(feature_id, c.child))
                    ELSE create_bond(r, Resolve(c.a1, feature_id),
                                     Resolve(c.a2, feature_id), c.order)
         IN IF res.panic THEN res ELSE ApplyCmds(Tail(cmds), feature_id, res.repr)

\* feature.apply(feature_id, &mut self.repr)
apply(feature, feature_id, r) == ApplyCmds(feature, feature_id, r)

\* ------------------------------------------------------------------ Molecule

\* from_first_atom without the push of the root feature.
from_first_atom_no_root(first_atom) ==
    LET spec == Specifier(0, 0)
        node == [element |-> first_atom, pos |-> Origin, spec |-> spec]
    IN [repr |-> [atom_map |-> (spec :> 0),
                  gpu_atoms |-> <<[kind |-> AtomKind(first_atom), pos |-> Origin]>>,
                  graph |-> [nodes |-> <<node>>, edges |-> <<>>],
                  gpu_synced |-> FALSE],
        features |-> EmptyFeatureList,
        history_step |-> 1]

\* from_first_atom starting the cursor at 0, ahead of the root feature.
from_first_atom_step_zero(first_atom) ==
    LET spec == Specifier(0, 0)
        node == [element |-> first_atom, pos |-> Origin, spec |-> spec]
    IN [repr |-> [atom_map |-> (spec :> 0),
                  gpu_atoms |-> <<[kind |-> AtomKind(first_atom), pos |-> Origin]>>,
                  graph |-> [nodes |-> <<node>>, edges |-> <<>>],
                  gpu_synced |-> FALSE],
        features |-> push_back(EmptyFeatureList, RootFeature),
        history_step |-> 0]

\* from_first_atom seeding a carbon atom whatever element it is given.
from_first_atom_carbon(first_atom) ==
    LET spec == Specifier(0, 0)
        node == [element |-> "C", pos |-> Origin, spec |-> spec]
    IN [repr |-> [atom_map |-> (spec :> 0),
                  gpu_atoms |-> <<[kind |-> AtomKind("C"), pos |-> Origin]>>,
                  graph |-> [nodes |-> <<node>>, edges |-> <<>>],
                  gpu_synced |-> FALSE],
        features |-> push_back(EmptyFeatureList, RootFeature),
        history_step |-> 1]

\* Molecule::from_first_atom
from_first_atom(first_atom) ==
    LET spec == Specifier(0, 0)
        first_index == 0
        node == [element |-> first_atom, pos |-> Origin, spec |-> spec]
    IN [repr |-> [atom_map |-> (spec :> first_index),
                  gpu_atoms |-> <<[kind |-> AtomKind(first_atom), pos |-> Origin]>>,
                  graph |-> [nodes |-> <<node>>, edges |-> <<>>],
                  gpu_synced |-> FALSE],
        features |-> push_back(EmptyFeatureList, RootFeature),
        history_step |-> 1]

RECURSIVE Replay_backwards(_, _, _, _)
\* The loop walking the slice from its last identity to its first.
Replay_backwards(ids, fl, r, done) ==
    IF ids = <<>> THEN [repr |-> r, panic |-> FALSE, applied |-> done, trace |-> <<>>]
    ELSE LET feature_id == ids[Len(ids)]
         IN IF feature_id \notin DOMAIN fl.features
            THEN [repr |-> r, panic |-> TRUE, applied |-> done, trace |-> <<>>]
            ELSE LET res == apply(fl.features[feature_id], feature_id, r)
                 IN IF res.panic
                    THEN [repr |-> res.repr, panic |-> TRUE,
                          applied |-> Append(done, feature_id), trace |-> <<r>>]
                    ELSE LET rest == Replay_backwards(SubSeq(ids, 1, Len(ids) - 1), fl,
                                                      res.repr, Append(done, feature_id))
                         IN [rest EXCEPT !.trace = <<r>> \o @]

RECURSIVE Replay(_, _, _, _)
\* The loop of set_history_step over a slice of order(): `done` lists the
\* identities apply has been invoked with, and `trace` holds, for each of them,
\* the graph as it was when that apply was invoked.
Replay(ids, fl, r, done) ==
    IF ids = <<>> THEN [repr |-> r, panic |-> FALSE, applied |-> done, trace |-> <<>>]
    ELSE LET feature_id == Head(ids)
         IN IF feature_id \notin DOMAIN fl.features
            THEN [repr |-> r, panic |-> TRUE, applied |-> done, trace |-> <<>>]
            ELSE LET res == apply(fl.features[feature_id], feature_id, r)
                 IN IF res.panic
                    THEN [repr |-> res.repr, panic |-> TRUE,
                          applied |-> Append(done, feature_id), trace |-> <<r>>]
                    ELSE LET rest == Replay(Tail(ids), fl, res.repr,
                                            Append(done, feature_id))
                         IN [rest EXCEPT !.trace = <<r>> \o @]

\* set_history_step replaying from the start of order() instead of from
\* the current step.
set_history_step_from_start(m, target) ==
    IF ~(target <= len(m.features))
    THEN [mol |-> m, panic |-> TRUE, applied |-> <<>>, trace |-> <<>>]
    ELSE IF ~(target > m.history_step)
    THEN [mol |-> m, panic |-> TRUE, applied |-> <<>>, trace |-> <<>>]
    ELSE LET run == Replay(SubSeq(m.features.order, 1, target),
                           m.features, m.repr, <<>>)
         IN [mol |-> [m EXCEPT !.repr = run.repr,
                               !.history_step = IF run.panic THEN @ ELSE target],
             panic |-> run.panic, applied |-> run.applied, trace |-> run.trace]

\* set_history_step storing the number of features this call applied
\* instead of the target.
set_history_step_count(m, target) ==
    IF ~(target <= len(m.features))
    THEN [mol |-> m, panic |-> TRUE, applied |-> <<>>, trace |-> <<>>]
    ELSE IF ~(target > m.history_step)
    THEN [mol |-> m, panic |-> TRUE, applied |-> <<>>, trace |-> <<>>]
    ELSE LET run == Replay(SubSeq(m.features.order, m.history_step + 1, target),
                           m.features, m.repr, <<>>)
         IN [mol |-> [m EXCEPT !.repr = run.repr,
                               !.history_step =
                                   IF run.panic THEN @ ELSE target - m.history_step],
             panic |-> run.panic, applied |-> run.applied, trace |-> run.trace]

\* set_history_step accepting the current step as a request that does nothing.
set_history_step_noop(m, target) ==
    IF ~(target <= len(m.features))
    THEN [mol |-> m, panic |-> TRUE, applied |-> <<>>, trace |-> <<>>]
    ELSE IF ~(target >= m.history_step)
    THEN [mol |-> m, panic |-> TRUE, applied |-> <<>>, trace |-> <<>>]
    ELSE LET run == Replay(SubSeq(m.features.order, m.history_step + 1, target),
                           m.features, m.repr, <<>>)
         IN [mol |-> [m EXCEPT !.repr = run.repr,
                               !.history_step = IF run.panic THEN @ ELSE target],
             panic |-> run.panic, applied |-> run.applied, trace |-> run.trace]

\* set_history_step clamping a target beyond the timeline to its length
\* instead of rejecting it.
set_history_step_clamp(m, target) ==
    LET t == IF target <= len(m.features) THEN target ELSE len(m.features)
    IN IF ~(t > m.history_step)
       THEN [mol |-> m, panic |-> TRUE, applied |-> <<>>, trace |-> <<>>]
       ELSE LET run == Replay(SubSeq(m.features.order, m.history_step + 1, t),
                              m.features, m.repr, <<>>)
            IN [mol |-> [m EXCEPT !.repr = run.repr,
                                  !.history_step = IF run.panic THEN @ ELSE t],
                panic |-> run.panic, applied |-> run.applied, trace |-> run.trace]

\* set_history_step restoring the graph it started with when an apply fails.
set_history_step_rollback(m, target) ==
    IF ~(target <= len(m.features))
    THEN [mol |-> m, panic |-> TRUE, applied |-> <<>>, trace |-> <<>>]
    ELSE IF ~(target > m.history_step)
    THEN [mol |-> m, panic |-> TRUE, applied |-> <<>>, trace |-> <<>>]
    ELSE LET run == Replay(SubSeq(m.features.order, m.history_step + 1, target),
                           m.features, m.repr, <<>>)
         IN [mol |-> IF run.panic THEN m
                     ELSE [m EXCEPT !.repr = run.repr, !.history_step = target],
             panic |-> run.panic, applied |-> run.applied, trace |-> run.trace]

\* Molecule::set_history_step: what the call leaves of the molecule, whether
\* it panicked, the identities it applied and the graph each apply started on.
set_history_step(m, target) ==
    IF ~(target <= len(m.features))
    THEN [mol |-> m, panic |-> TRUE, applied |-> <<>>, trace |-> <<>>]
    ELSE IF ~(target > m.history_step)
    THEN [mol |-> m, panic |-> TRUE, applied |-> <<>>, trace |-> <<>>]
    ELSE LET run == Replay(SubSeq(m.features.order, m.history_step + 1, target),
                           m.features, m.repr, <<>>)
         IN [mol |-> [m EXCEPT !.repr = run.repr,
                               !.history_step = IF run.panic THEN @ ELSE target],
             panic |-> run.panic, applied |-> run.applied, trace |-> run.trace]

\* apply_all_features advancing by one feature only.
apply_all_features_one(m) == set_history_step(m, m.history_step + 1)

\* apply_all_features returning without a call when every feature is
\* already applied.
apply_all_features_idle(m) ==
    IF m.history_step = len(m.features)
    THEN [mol |-> m, panic |-> FALSE, applied |-> <<>>, trace |-> <<>>]
    ELSE set_history_step(m, len(m.features))

\* Molecule::apply_all_features
apply_all_features(m) == set_history_step(m, len(m.features))

RECURSIVE PushAll(_, _)
\* A with_features closure that pushes the given features in turn.
PushAll(fl, fs) ==
    IF fs = <<>> THEN fl ELSE PushAll(push_back(fl, Head(fs)), Tail(fs))

\* with_features recomputing the model after the closure (the first option
\* of the TODO at molecule.rs:158).
with_features_recompute(m, fs) ==
    LET edited == [m EXCEPT !.features = PushAll(@, fs)]
    IN set_history_step(edited, len(edited.features)).mol

\* Molecule::with_features: the closure runs on the timeline, nothing else.
with_features(m, fs) == [m EXCEPT !.features = PushAll(@, fs)]

\* -------------------------------------------------------------- the machine

\* The molecule as one value.
Mol == [repr |-> repr, features |-> features, history_step |-> history_step]

\* The call last made: its name and arguments (unused ones at a default).
Call(op, target, element, a1, a2, order) ==
    [op |-> op, target |-> target, element |-> element, a1 |-> a1, a2 |-> a2,
     order |-> order]

\* The specifiers direct calls are made with: the seed's, one no feature
\* introduces, and one the feature with identity 1 introduces.
DirectSpecs == {SeedSpec, Specifier(0, 1), Specifier(1, 0)}

\* The atoms direct calls add: one reusing the seed's specifier, one with the
\* specifier the feature with identity 1 introduces.
DirectAtoms == {<<"H", SeedSpec>>, <<"C", Specifier(1, 0)>>}

\* The bonds direct calls create: a self loop, one an applied PairFeature also
\* creates, and two with an endpoint that no feature introduces.
DirectBonds ==
    {<<SeedSpec, SeedSpec, 2>>, <<SeedSpec, Specifier(1, 0), 1>>,
     <<Specifier(0, 1), SeedSpec, 1>>, <<Specifier(0, 1), Specifier(0, 1), 2>>}

\* The closures with_features is called with: each pushes one or two features.
Pushes(room) ==
    UNION {[1..n -> FeatureKinds] : n \in {k \in {1, 2} : k <= room}}

Init ==
    \E first_atom \in Elements :
        LET m == from_first_atom(first_atom)
        IN /\ repr = m.repr
           /\ features = m.features
           /\ history_step = m.history_step
           /\ call = Call("from_first_atom", 0, first_atom, SeedSpec, SeedSpec, 0)
           /\ panicked = FALSE
           /\ applied = <<>>
           /\ ret = None
           /\ base = m
           /\ streak = 0
           /\ direct = 0
           /\ replayed = <<>>

\* A call that is no set_history_step starts a new run of steps, and applies
\* no feature.
Restart(m) ==
    /\ replayed' = replayed
    /\ repr' = m.repr
    /\ features' = m.features
    /\ history_step' = m.history_step
    /\ applied' = <<>>
    /\ ret' = None
    /\ base' = m
    /\ streak' = 0

WithFeatures ==
    /\ ~panicked
    /\ len(features) < MaxFeatures
    /\ \E fs \in Pushes(MaxFeatures - len(features)) :
          /\ Restart(with_features(Mol, fs))
          /\ call' = Call("with_features", Len(fs), "C", SeedSpec, SeedSpec, 0)
          /\ panicked' = FALSE
    /\ UNCHANGED direct

\* One call of set_history_step, made as `op`.
Step(op, target) ==
    LET res == set_history_step(Mol, target)
    IN /\ repr' = res.mol.repr
       /\ features' = res.mol.features
       /\ history_step' = res.mol.history_step
       /\ call' = Call(op, target, "C", SeedSpec, SeedSpec, 0)
       /\ panicked' = res.panic
       /\ applied' = res.applied
       /\ ret' = None
       /\ base' = base
       /\ streak' = IF res.panic THEN streak ELSE streak + 1
       /\ replayed' = replayed \o res.applied

SetHistoryStep ==
    /\ ~panicked
    /\ \E target \in 0..(len(features) + 1) : Step("set_history_step", target)
    /\ UNCHANGED direct

ApplyAllFeatures ==
    /\ ~panicked
    /\ LET res == apply_all_features(Mol)
       IN /\ repr' = res.mol.repr
          /\ features' = res.mol.features
          /\ history_step' = res.mol.history_step
          /\ call' = Call("apply_all_features", len(features), "C", SeedSpec, SeedSpec, 0)
          /\ panicked' = res.panic
          /\ applied' = res.applied
          /\ ret' = None
          /\ base' = base
          /\ streak' = IF res.panic THEN streak ELSE streak + 1
          /\ replayed' = replayed \o res.applied
    /\ UNCHANGED direct

\* molecule.repr.add_atom(..): repr is a public field.
AddAtom ==
    /\ ~panicked
    /\ direct < MaxDirect
    /\ direct' = direct + 1
    /\ \E a \in DirectAtoms :
          LET res == add_atom(repr, a[1], Offset, a[2])
          IN /\ Restart([Mol EXCEPT !.repr = res.repr])
             /\ call' = Call("add_atom", 0, a[1], a[2], a[2], 0)
             /\ panicked' = res.panic

CreateBond ==
    /\ ~panicked
    /\ direct < MaxDirect
    /\ direct' = direct + 1
    /\ \E b \in DirectBonds :
          LET res == create_bond(repr, b[1], b[2], b[3])
          IN /\ Restart([Mol EXCEPT !.repr = res.repr])
             /\ call' = Call("create_bond", 0, "C", b[1], b[2], b[3])
             /\ panicked' = res.panic

FindAtom ==
    /\ ~panicked
    /\ \E spec \in DirectSpecs :
          /\ ret' = find_atom(repr, spec)
          /\ call' = Call("find_atom", 0, "C", spec, spec, 0)
    /\ applied' = <<>>
    /\ UNCHANGED <<repr, features, history_step, panicked, base, streak, direct,
                   replayed>>

ReuploadAtoms ==
    /\ ~panicked
    /\ UNCHANGED direct
    /\ Restart([Mol EXCEPT !.repr = reupload_atoms(repr)])
    /\ call' = Call("reupload_atoms", 0, "C", SeedSpec, SeedSpec, 0)
    /\ panicked' = FALSE

Next ==
    \/ WithFeatures
    \/ SetHistoryStep
    \/ ApplyAllFeatures
    \/ AddAtom
    \/ CreateBond
    \/ FindAtom
    \/ ReuploadAtoms

Spec == Init /\ [][Next]_vars

\* ------------------------------------------------------------------ claims

\* The last call was a call of set_history_step (apply_all_features is one).
IsStep(c) == c.op \in {"set_history_step", "apply_all_features"}

\* C1 as stated: a call set_history_step(target) made when
\* history_step < target <= timeline.len() succeeds, invokes apply for exactly
\* the identities at positions history_step .. target-1 of order(), and ends
\* with history_step == target.
C1_StepAlwaysSucceeds ==
    [][(IsStep(call') /\ history_step < call'.target /\ call'.target <= len(features))
         => /\ ~panicked'
            /\ applied' = SubSeq(features.order, history_step + 1, call'.target)
            /\ history_step' = call'.target]_vars

\* C1 amended: such a call invokes apply, in order and once each, for the
\* identities of order() from position history_step on and for no other; if
\* none of those applies fails it has invoked apply for exactly the positions
\* history_step .. target-1 and ends with history_step == target; a failure
\* arises inside an apply and leaves history_step as it was.
C1_StepAppliesRange ==
    [][(IsStep(call') /\ history_step < call'.target /\ call'.target <= len(features))
         => /\ \E n \in 0..(call'.target - history_step) :
                   applied' = SubSeq(features.order, history_step + 1, history_step + n)
            /\ ~panicked' =>
                   /\ applied' = SubSeq(features.order, history_step + 1, call'.target)
                   /\ history_step' = call'.target
            /\ panicked' => Len(applied') >= 1 /\ history_step' = history_step]_vars

\* A successful call that applied two features at once.
C1_Witness ==
    call.op = "set_history_step" /\ ~panicked /\ Len(applied) >= 2
    /\ history_step = call.target

\* The graph and specifier map of two molecules agree.
SameGraph(r1, r2) == r1.graph = r2.graph /\ r1.atom_map = r2.atom_map

\* C2: a run of set_history_step calls with strictly increasing targets leaves
\* the same graph (atoms, bonds, specifier map) and the same history_step as
\* the single call set_history_step(last target) on the molecule the run
\* started from (base); a run that a failing apply aborts leaves the graph the
\* single call aborts with.
C2_SteppedEqualsSingle ==
    /\ (streak >= 1 /\ ~panicked) =>
           LET single == set_history_step(base, history_step)
           IN /\ ~single.panic
              /\ SameGraph(single.mol.repr, repr)
              /\ single.mol.history_step = history_step
    /\ (panicked /\ IsStep(call) /\ history_step < call.target
          /\ call.target <= len(features)) =>
           LET single == set_history_step(base, call.target)
           IN single.panic /\ SameGraph(single.mol.repr, repr)

\* Two successive calls have advanced the molecule by two features, step by step.
C2_Witness ==
    streak >= 2 /\ ~panicked /\ history_step = base.history_step + 2
    /\ NodeCount(repr) > NodeCount(base.repr)

\* C3: history_step never decreases from one state to the next.
C3_StepMonotonic == [][history_step' >= history_step]_vars

\* A second successful step has raised history_step again.
C3_Witness == IsStep(call) /\ ~panicked /\ streak >= 2 /\ history_step >= 3

\* C4: history_step <= timeline.len() in every reachable state.
C4_StepWithinTimeline == history_step <= len(features)

\* Every feature of a timeline of three has been applied.
C4_Witness == IsStep(call) /\ ~panicked /\ len(features) >= 3 /\ history_step = len(features)

\* C5: set_history_step(target) with target <= history_step fails fatally,
\* applies no feature and leaves the graph, the specifier map and
\* history_step as they were.
C5_BackwardRejected ==
    [][(IsStep(call') /\ call'.target <= history_step)
         => /\ panicked'
            /\ applied' = <<>>
            /\ repr' = repr
            /\ history_step' = history_step]_vars

\* set_history_step was asked for the current step of an advanced molecule.
C5_Witness ==
    call.op = "set_history_step" /\ call.target = history_step /\ panicked
    /\ history_step >= 2

\* C6: set_history_step(target) with target > timeline.len() fails fatally
\* before any feature is applied and leaves the graph, the specifier map and
\* history_step as they were.
C6_BeyondTimelineRejected ==
    [][(IsStep(call') /\ call'.target > len(features))
         => /\ panicked'
            /\ applied' = <<>>
            /\ repr' = repr
            /\ history_step' = history_step]_vars

\* set_history_step was asked for a step beyond a timeline with features
\* still to apply.
C6_Witness ==
    call.op = "set_history_step" /\ call.target > len(features) /\ panicked
    /\ history_step < len(features)

\* C7: add_atom with a specifier that is already a key of the specifier map
\* fails fatally and leaves the graph unchanged (no node added, the map entry
\* still pointing to the original node).
C7_DuplicateAddRejected ==
    [][(call'.op = "add_atom" /\ call'.a1 \in DOMAIN repr.atom_map)
         => /\ panicked'
            /\ repr'.graph = repr.graph
            /\ repr'.atom_map = repr.atom_map]_vars

\* Each key of the specifier map points to a live node that stores the key,
\* and every live node is the target of exactly one key.
MapIsBijection(r) ==
    /\ \A k \in DOMAIN r.atom_map :
           /\ r.atom_map[k] \in 0..(NodeCount(r) - 1)
           /\ r.graph.nodes[r.atom_map[k] + 1].spec = k
    /\ \A i \in 0..(NodeCount(r) - 1) :
           Cardinality({k \in DOMAIN r.atom_map : r.atom_map[k] = i}) = 1
    /\ Cardinality(DOMAIN r.atom_map) = NodeCount(r)

\* C8: in every reachable state the specifier map is a bijection between its
\* keys and the live graph nodes.
C8_MapBijection == MapIsBijection(repr)

\* C9: create_bond with an endpoint that is not a key of the specifier map
\* fails fatally and adds no edge; the node set and the specifier map are
\* unchanged.
C9_UnresolvedBondRejected ==
    [][(call'.op = "create_bond"
          /\ (call'.a1 \notin DOMAIN repr.atom_map \/ call'.a2 \notin DOMAIN repr.atom_map))
         => /\ panicked'
            /\ repr'.graph.edges = repr.graph.edges
            /\ repr'.graph.nodes = repr.graph.nodes
            /\ repr'.atom_map = repr.atom_map]_vars

\* A bond was asked for between the seed atom and an atom that does not exist.
C9_Witness ==
    call.op = "create_bond" /\ panicked
    /\ call.a1 \in DOMAIN repr.atom_map /\ call.a2 \notin DOMAIN repr.atom_map

\* C10: create_bond with both endpoints resolved adds exactly one edge, between
\* the nodes of the two specifiers and of the given order (also for a == b and
\* for two nodes an edge already joins), and leaves the specifier map and the
\* node set unchanged.
C10_BondAddsOneEdge ==
    [][(call'.op = "create_bond"
          /\ call'.a1 \in DOMAIN repr.atom_map /\ call'.a2 \in DOMAIN repr.atom_map)
         => /\ ~panicked'
            /\ repr'.graph.edges =
                   Append(repr.graph.edges,
                          [a |-> repr.atom_map[call'.a1], b |-> repr.atom_map[call'.a2],
                           order |-> call'.order])
            /\ EdgeCount(repr') = EdgeCount(repr) + 1
            /\ repr'.graph.nodes = repr.graph.nodes
            /\ repr'.atom_map = repr.atom_map]_vars

\* A bond was created between two distinct nodes that an edge already joined.
C10_Witness ==
    /\ call.op = "create_bond" /\ ~panicked /\ call.a1 # call.a2
    /\ EdgeCount(repr) >= 2
    /\ \E i \in 1..(EdgeCount(repr) - 1) :
           /\ repr.graph.edges[i].a = repr.graph.edges[EdgeCount(repr)].a
           /\ repr.graph.edges[i].b = repr.graph.edges[EdgeCount(repr)].b

\* C11: immediately after every successful add_atom and every successful
\* create_bond, gpu_synced is false, whatever it was before the call.
C11_MutationClearsSynced ==
    [][(call'.op \in {"add_atom", "create_bond"} /\ ~panicked')
         => ~repr'.gpu_synced]_vars

\* C12: reupload_atoms replaces the render buffer with exactly one entry
\* (element kind, position) per node of the graph and sets the synced flag,
\* without changing the graph, the specifier map or history_step.
C12_ReuploadMirrorsNodes ==
    [][(call'.op = "reupload_atoms")
         => /\ ~panicked'
            /\ Len(repr'.gpu_atoms) = NodeCount(repr)
            /\ \A i \in 1..NodeCount(repr) :
                   /\ repr'.gpu_atoms[i].kind = AtomKind(repr.graph.nodes[i].element)
                   /\ repr'.gpu_atoms[i].pos = repr.graph.nodes[i].pos
            /\ repr'.gpu_synced
            /\ repr'.graph = repr.graph
            /\ repr'.atom_map = repr.atom_map
            /\ history_step' = history_step]_vars

\* The buffer was rebuilt for a graph that had grown to three atoms.
C12_Witness ==
    call.op = "reupload_atoms" /\ NodeCount(repr) >= 3
    /\ Len(repr.gpu_atoms) = NodeCount(repr) /\ repr.gpu_synced

\* C13: add_atom, create_bond, with_features, set_history_step and
\* apply_all_features (and find_atom) leave the render buffer unchanged; only
\* reupload_atoms changes it.
C13_OnlyReuploadTouchesBuffer ==
    [][(call'.op # "reupload_atoms") => repr'.gpu_atoms = repr.gpu_atoms]_vars

\* Replay has added atoms and the buffer still holds the seed atom alone.
C13_Witness ==
    IsStep(call) /\ ~panicked /\ NodeCount(repr) >= 3 /\ Len(repr.gpu_atoms) = 1

\* C14: find_atom never fails and changes nothing; it returns the atom whose
\* specifier is the one asked for when that is a key of the specifier map,
\* and nothing otherwise.
C14_FindAtomReadOnly ==
    [][(call'.op = "find_atom")
         => /\ ~panicked'
            /\ (call'.a1 \in DOMAIN repr.atom_map) =>
                   /\ ret'.some
                   /\ ret'.node.spec = call'.a1
                   /\ \E i \in 1..NodeCount(repr) : repr.graph.nodes[i] = ret'.node
            /\ (call'.a1 \notin DOMAIN repr.atom_map) => ~ret'.some
            /\ repr' = repr
            /\ features' = features
            /\ history_step' = history_step]_vars

\* An atom added by replay was looked up and found.
C14_Witness ==
    call.op = "find_atom" /\ ret.some /\ call.a1 = Specifier(1, 0)
    /\ ret.node.spec = Specifier(1, 0) /\ direct = 0

\* C15: from_first_atom(element) yields a graph of exactly one node (the
\* given element at the origin) and no edges, a timeline of exactly one entry
\* (the root operation), history_step == 1, and a specifier map of exactly one
\* entry, keyed by the canonical seed specifier (path = [(0,0)], local index
\* 0) and pointing at that node.
C15_SeedState ==
    (call.op = "from_first_atom") =>
        LET canonical == [feature_path |-> <<[feature_id |-> 0, copy_index |-> 0]>>,
                          child_index |-> 0]
        IN /\ ~panicked
           /\ repr.graph.nodes =
                  <<[element |-> call.element, pos |-> <<0, 0, 0>>, spec |-> canonical]>>
           /\ repr.graph.edges = <<>>
           /\ len(features) = 1
           /\ Len(features.order) = 1
           /\ features.order[1] \in DOMAIN features.features
           /\ features.features[features.order[1]] = RootFeature
           /\ history_step = 1
           /\ DOMAIN repr.atom_map = {canonical}
           /\ repr.atom_map[canonical] = 0

\* A molecule was seeded with a hydrogen atom.
C15_Witness ==
    call.op = "from_first_atom" /\ call.element = "H" /\ NodeCount(repr) = 1

\* C16: apply_all_features() does what set_history_step(timeline.len()) does
\* in the same state: both succeed with the same graph, specifier map and
\* history_step, or both are rejected (as when history_step already equals
\* timeline.len()).
C16_ApplyAllIsStepToEnd ==
    [][(call'.op = "apply_all_features")
         => LET res == set_history_step(Mol, len(features))
            IN /\ panicked' = res.panic
               /\ repr' = res.mol.repr
               /\ history_step' = res.mol.history_step
               /\ features' = features
               /\ applied' = res.applied
               /\ (history_step = len(features)) => panicked']_vars

\* apply_all_features applied two pending features.
C16_Witness ==
    call.op = "apply_all_features" /\ ~panicked /\ Len(applied) >= 2
    /\ history_step = len(features)

\* C17: a with_features call that appends features leaves the graph, the
\* specifier map, the synced flag and history_step unchanged: nothing of the
\* appended features is in the graph until a later step advances past them.
C17_WithFeaturesDoesNotReplay ==
    [][(call'.op = "with_features")
         => /\ ~panicked'
            /\ len(features') = len(features) + call'.target
            /\ repr'.graph = repr.graph
            /\ repr'.atom_map = repr.atom_map
            /\ repr'.gpu_synced = repr.gpu_synced
            /\ history_step' = history_step
            /\ history_step' < len(features')]_vars

\* Two features were appended to a fresh molecule, whose graph still holds
\* the seed atom alone.
C17_Witness ==
    call.op = "with_features" /\ call.target = 2 /\ NodeCount(repr) = 1
    /\ history_step = 1 /\ len(features) = 3

\* C18: on a freshly seeded molecule, appending one operation that adds two
\* atoms with novel specifiers and one bond between resolvable atoms and then
\* calling set_history_step(2) yields a graph of 3 nodes and 1 edge,
\* history_step == 2, and find_atom resolves both new specifiers.
C18_PairScenario ==
    [][(/\ history_step = 1 /\ direct = 0 /\ NodeCount(repr) = 1
        /\ len(features) = 2
        /\ features.features[features.order[2]] = PairFeature
        /\ call'.op = "set_history_step" /\ call'.target = 2)
         => /\ ~panicked'
            /\ NodeCount(repr') = 3
            /\ EdgeCount(repr') = 1
            /\ history_step' = 2
            /\ \A child \in {0, 1} :
                   LET found == find_atom(repr', Specifier(features.order[2], child))
                   IN found.some /\ found.node.spec = Specifier(features.order[2], child)]_vars

\* The scenario has run: the pair feature is applied at step 2.
C18_Witness ==
    /\ call.op = "set_history_step" /\ call.target = 2 /\ ~panicked
    /\ direct = 0 /\ base.history_step = 1 /\ len(features) = 2
    /\ features.features[features.order[2]] = PairFeature
    /\ NodeCount(repr) = 3 /\ EdgeCount(repr) = 1

\* The identities of order() increase strictly, each resolves via get, and the
\* counter is beyond all of them.
TimelineWellFormed(fl) ==
    /\ \A i \in 1..(Len(fl.order) - 1) : fl.order[i] < fl.order[i + 1]
    /\ \A i \in 1..Len(fl.order) :
           fl.order[i] \in DOMAIN fl.features /\ fl.order[i] < fl.counter
    /\ Cardinality(DOMAIN fl.features) = len(fl)

\* C19: each push_back returns an identity greater than every earlier one,
\* registers the feature under it, appends it as the last element of order()
\* and increases len() by one; so every identity of order() resolves via get.
C19_PushBackIdentities ==
    /\ []TimelineWellFormed(features)
    /\ [][(call'.op = "with_features")
            => /\ len(features') = len(features) + call'.target
               /\ SubSeq(features'.order, 1, len(features)) = features.order
               /\ \A i \in (len(features) + 1)..len(features') :
                      /\ \A j \in 1..(i - 1) : features'.order[j] < features'.order[i]
                      /\ features'.order[i] \in DOMAIN features'.features
                      /\ features'.features[features'.order[i]] \in FeatureKinds
               /\ \A id \in DOMAIN features.features :
                      features'.features[id] = features.features[id]]_vars

\* Two closures have each pushed one feature after the root feature.
C19_Witness ==
    call.op = "with_features" /\ call.target = 1 /\ len(features) = 3
    /\ features.order = <<0, 1, 2>>

\* s is a prefix of t.
IsPrefix(s, t) == Len(s) <= Len(t) /\ SubSeq(t, 1, Len(s)) = s

\* C20: over any sequence of calls the nodes and the edges of the graph only
\* grow: none is removed, and an existing node keeps its element, position
\* and specifier.
C20_NothingDeleted ==
    [][/\ IsPrefix(repr.graph.nodes, repr'.graph.nodes)
       /\ IsPrefix(repr.graph.edges, repr'.graph.edges)]_vars

\* Replay and a direct call have grown the graph to three atoms and two bonds.
C20_Witness ==
    call.op = "create_bond" /\ ~panicked /\ NodeCount(repr) >= 3
    /\ EdgeCount(repr) >= 2

\* The number of atoms and of bonds a feature's apply creates.
AtomsOf(feature) == Cardinality({i \in 1..Len(feature) : feature[i].cmd = "add_atom"})
BondsOf(feature) == Cardinality({i \in 1..Len(feature) : feature[i].cmd = "create_bond"})

\* Every atom of the feature resolves via find_atom in r, and every bond of
\* the feature is an edge of r between the nodes its endpoints resolve to.
CompletelyApplied(feature, feature_id, r) ==
    \A i \in 1..Len(feature) :
        LET c == feature[i]
        IN IF c.cmd = "add_atom"
           THEN LET found == find_atom(r, Specifier(feature_id, c.child))
                IN found.some /\ found.node.spec = Specifier(feature_id, c.child)
           ELSE LET s1 == Resolve(c.a1, feature_id)
                    s2 == Resolve(c.a2, feature_id)
                IN /\ s1 \in DOMAIN r.atom_map
                   /\ s2 \in DOMAIN r.atom_map
                   /\ \E e \in 1..EdgeCount(r) :
                          r.graph.edges[e] = [a |-> r.atom_map[s1], b |-> r.atom_map[s2],
                                              order |-> c.order]

\* C21: replay is a strict left-to-right fold.  In a set_history_step call the
\* i-th apply is invoked with the identity at position history_step + i - 1 of
\* order(); the graph it starts on holds every feature of the earlier positions
\* of the call completely (atoms resolve via find_atom, bonds exist), and holds
\* nothing of the feature at that position or at any later one: beyond the
\* graph the call started with, it holds exactly the atoms and bonds of the
\* earlier positions.
C21_ReplayIsLeftToRightFold ==
    [][(IsStep(call') /\ history_step < call'.target /\ call'.target <= len(features))
         => LET run == set_history_step(Mol, call'.target)
                feat(i) == features.features[features.order[history_step + i]]
            IN /\ applied' = run.applied
               /\ Len(run.trace) = Len(run.applied)
               /\ Len(run.applied) >= 1
               /\ run.trace[1] = repr
               /\ \A i \in 1..Len(run.applied) :
                      /\ run.applied[i] = features.order[history_step + i]
                      /\ \A j \in 1..(i - 1) :
                             CompletelyApplied(feat(j), run.applied[j], run.trace[i])
                      /\ i > 1 =>
                             /\ NodeCount(run.trace[i])
                                  = NodeCount(run.trace[i - 1]) + AtomsOf(feat(i - 1))
                             /\ EdgeCount(run.trace[i])
                                  = EdgeCount(run.trace[i - 1]) + BondsOf(feat(i - 1))
                             /\ IsPrefix(run.trace[i - 1].graph.nodes,
                                         run.trace[i].graph.nodes)
                             /\ \A n \in (NodeCount(run.trace[i - 1]) + 1)
                                           ..NodeCount(run.trace[i]) :
                                    run.trace[i].graph.nodes[n].spec.feature_path[1].feature_id
                                      = run.applied[i - 1]]_vars

\* One call has applied a pair feature and then a second feature, which
\* started on a graph that already held the pair and its bond.
C21_Witness ==
    /\ IsStep(call) /\ ~panicked /\ Len(applied) = 2
    /\ features.features[applied[1]] = PairFeature
    /\ NodeCount(repr) >= 4 /\ EdgeCount(repr) >= 1

\* The bond commands of the feature with an endpoint that does not resolve in r.
UnresolvedBonds(feature, feature_id, r) ==
    {i \in 1..Len(feature) :
        /\ feature[i].cmd = "create_bond"
        /\ \/ Resolve(feature[i].a1, feature_id) \notin DOMAIN r.atom_map
           \/ Resolve(feature[i].a2, feature_id) \notin DOMAIN r.atom_map}

\* The commands of the feature ahead of its first bond that does not resolve
\* in r (all of them when every bond resolves).
CmdsBeforeFailure(feature, feature_id, r) ==
    LET bad == UnresolvedBonds(feature, feature_id, r)
    IN IF bad = {} THEN feature
       ELSE SubSeq(feature, 1, (CHOOSE i \in bad : \A j \in bad : i <= j) - 1)

\* C22: there is no partial rollback.  When an apply fails inside
\* set_history_step, history_step and the timeline are as before the call; the
\* graph the call started with is still there; every feature the call applied
\* before the failing one is completely in the graph and the specifier map; so
\* are the commands of the failing feature ahead of the failing one; and the
\* graph has grown by exactly those atoms and bonds.
C22_NoPartialRollback ==
    [][(IsStep(call') /\ panicked' /\ applied' # <<>>)
         => LET last == Len(applied')
                feat(j) == features.features[applied'[j]]
                ran(j) == IF j < last THEN feat(j)
                          ELSE CmdsBeforeFailure(feat(j), applied'[j], repr')
                cmds(kind) == UNION {{<<j, i>> : i \in {i \in 1..Len(ran(j)) :
                                                           ran(j)[i].cmd = kind}} :
                                     j \in 1..last}
                atoms == cmds("add_atom")
                bonds == cmds("create_bond")
            IN /\ history_step' = history_step
               /\ features' = features
               /\ IsPrefix(repr.graph.nodes, repr'.graph.nodes)
               /\ IsPrefix(repr.graph.edges, repr'.graph.edges)
               /\ DOMAIN repr.atom_map \subseteq DOMAIN repr'.atom_map
               /\ UnresolvedBonds(feat(last), applied'[last], repr') # {}
               /\ \A j \in 1..last : CompletelyApplied(ran(j), applied'[j], repr')
               /\ NodeCount(repr') = NodeCount(repr) + Cardinality(atoms)
               /\ EdgeCount(repr') = EdgeCount(repr) + Cardinality(bonds)]_vars

\* A call to step 3 applied a pair feature and then failed in a feature whose
\* bond does not resolve: the pair, its bond and the failing feature's atom are
\* in the graph, and history_step is still 1.
C22_Witness ==
    /\ IsStep(call) /\ panicked /\ Len(applied) = 2 /\ history_step = 1
    /\ features.features[applied[1]] = PairFeature
    /\ features.features[applied[2]] = DanglingFeature
    /\ NodeCount(repr) = 4 /\ EdgeCount(repr) = 1
    /\ Specifier(applied[2], 0) \in DOMAIN repr.atom_map

\* C23: over the lifetime of a molecule every position of order() is applied
\* by replay at most once, and position 0 (the root feature) never: replay has
\* applied, in order, the positions 1 .. history_step-1 (and, in the call that
\* ended the molecule's life by a failure inside an apply, the positions from
\* history_step up to the failing one); history_step is never below 1.
C23_AppliedAtMostOnce ==
    /\ history_step >= 1
    /\ \A i, j \in 1..Len(replayed) : i # j => replayed[i] # replayed[j]
    /\ \A i \in 1..Len(replayed) : replayed[i] # features.order[1]
    /\ \E upto \in history_step..len(features) :
          /\ upto > history_step => panicked /\ IsStep(call)
          /\ replayed = SubSeq(features.order, 2, upto)

\* Two successive calls have each applied one feature, both beyond the root.
C23_Witness ==
    /\ IsStep(call) /\ ~panicked /\ streak = 2 /\ Len(replayed) = 2
    /\ Len(applied) = 1 /\ history_step = 3

\* The render buffer holds, in node order, the kind and position of every node
\* of the graph and nothing else.
BufferMirrorsNodes(r) ==
    /\ Len(r.gpu_atoms) = NodeCount(r)
    /\ \A i \in 1..NodeCount(r) :
           r.gpu_atoms[i] = [kind |-> AtomKind(r.graph.nodes[i].element),
                             pos |-> r.graph.nodes[i].pos]

\* C24: whenever the synced flag is true the render buffer holds exactly the
\* (element, position) of every node of the graph: a call that adds a node
\* leaves the flag false, and only reupload_atoms makes it true, so it is false
\* from construction until the first reupload_atoms.
C24_SyncedMeansMirrored ==
    /\ ~repr.gpu_synced
    /\ [](repr.gpu_synced => BufferMirrorsNodes(repr))
    /\ [][/\ NodeCount(repr') # NodeCount(repr) => ~repr'.gpu_synced
          /\ (repr'.gpu_synced /\ ~repr.gpu_synced) => call'.op = "reupload_atoms"]_vars

\* After replay and a reupload a bond was created directly: the flag is still
\* true and the buffer still mirrors the three or more atoms.
C24_Witness ==
    /\ call.op = "create_bond" /\ ~panicked /\ repr.gpu_synced
    /\ NodeCount(repr) >= 3 /\ EdgeCount(repr) >= 2

====
